---- MODULE Spec2Model ----
(***************************************************************************)
(* Model of the patient/doctor registry of src/main.go: the Store (the    *)
(* directory, the selection relation, the per-doctor subscriber sets),     *)
(* its readers-writer lock, the detached persistSelections goroutines     *)
(* and the /api/doctor/stream handlers with their channels.                *)
(***************************************************************************)
EXTENDS Integers, Sequences, FiniteSets, TLC

\* ---------------------------------------------------------------- bounds
MaxPatientId == 2      \* patient ids range over 1..MaxPatientId
MaxDoctorId == 1       \* doctor ids range over 0..MaxDoctorId
MaxCalls == 2          \* /api/patient/select-doctor requests in one run
NumStreams == 2        \* /api/doctor/stream connections in one run
MaxFileLen == 1        \* entries of the selections.json found at startup

\* ------------------------------------------------------ program constants
ChanCap == 1           \* make(chan struct{}, 1)

PatientIds == 1..MaxPatientId
DoctorIds == 0..MaxDoctorId
Callers == 1..MaxCalls
Streams == 1..NumStreams
Goroutines == Callers

ErrPatient == "patient not found"
ErrDoctor == "doctor not found"

VARIABLES
    patients,     \* Store.patients: the ids of the seeded patients
    doctors,      \* Store.doctors: the ids of the seeded doctors
    selections,   \* Store.selections: map patient id -> doctor id
    subs,         \* Store.subs: map doctor id -> set of channels
    chans,        \* the channels made by Subscribe, one per stream
    mu,           \* Store.mu: [w: writer holders, r: reader holders]
    file,         \* the content of selections.json
    call,         \* per request: its SelectDoctor call, numbered in lock order
    stream,       \* per connection: the stream handler's position
    gor,          \* the detached persistSelections goroutines, one per call
    panics,       \* the run-time panics raised so far
    view          \* one /api/patient/me request: the handler's position

vars == <<patients, doctors, selections, subs, chans, mu, file, call,
          stream, gor, panics, view>>

\* ------------------------------------------------------------ the RWMutex
CallerId(i) == <<"select", i>>
StreamId(s) == <<"stream", s>>
GorId(g) == <<"persist", g>>
ViewId == <<"view", 1>>

\* a faulty exclusion: the writer does not wait for the readers, as when
\* persistSelections reads and writes without s.mu.RLock()
CanLockIgnoresReaders(m) == m.w = {}

\* sync.RWMutex.Lock: granted when nobody holds the lock
CanLock(m) == m.w = {} /\ m.r = {}
\* sync.RWMutex.RLock: granted when no writer holds the lock
CanRLock(m) == m.w = {}

\* a missing `defer s.mu.Unlock()`: the holder keeps the lock
UnlockMissing(m, id) == m

\* sync.RWMutex.Unlock by the writer id
Unlock(m, id) == [m EXCEPT !.w = m.w \ {id}]

\* sync.RWMutex.RUnlock by the reader id
RUnlock(m, id) == [m EXCEPT !.r = m.r \ {id}]

\* ------------------------------------------------------- the relation map
EmptyMap == <<>>

\* Go map read: the zero value when the key is absent
MapGet(sel, p) == IF p \in DOMAIN sel THEN sel[p] ELSE 0

\* a faulty map write: an entry that exists is not overwritten
MapSetIfAbsent(sel, p, d) ==
    IF p \in DOMAIN sel THEN sel ELSE [q \in (DOMAIN sel) \cup {p} |-> IF q = p THEN d ELSE sel[q]]

\* a faulty map write: key and value change places
MapSetSwapped(sel, p, d) ==
    [q \in (DOMAIN sel) \cup {d} |-> IF q = d THEN p ELSE sel[q]]

\* s.selections[patientID] = doctorID
MapSet(sel, p, d) == [q \in (DOMAIN sel) \cup {p} |-> IF q = p THEN d ELSE sel[q]]

\* a faulty scan: the test `did == doctorID` is missing
PatientsOfDoctorAll(sel, pats, d) ==
    {p \in DOMAIN sel : p \in pats}

\* Store.PatientsOfDoctor: scan the relation, keep the seeded patients
PatientsOfDoctor(sel, pats, d) ==
    {p \in DOMAIN sel : sel[p] = d /\ p \in pats}

\* ------------------------------------------------------- selections.json
\* faulty json tags: the two fields change names
SelectionSwapped(p, d) == [patient_id |-> d, doctor_id |-> p]

\* type Selection and its json tags
Selection(p, d) == [patient_id |-> p, doctor_id |-> d]

RECURSIVE ApplyArr(_, _)
ApplyArr(arr, sel) ==
    IF arr = <<>> THEN sel
    ELSE ApplyArr(Tail(arr), MapSet(sel, Head(arr).patient_id, Head(arr).doctor_id))

\* Store.loadSelections: a missing or unparsable file leaves the map alone
loadSelections(f, sel) ==
    IF f.state = "json" THEN ApplyArr(f.arr, sel) ELSE sel

\* the arrays a range over the map can build: one entry per key, any order
RECURSIVE Orders(_)
Orders(S) ==
    IF S = {} THEN {<<>>}
    ELSE UNION {{<<x>> \o t : t \in Orders(S \ {x})} : x \in S}

\* a faulty range: the loop stops after the first entry
MarshalArrsFirstOnly(sel) ==
    {[i \in 1..(IF Len(o) = 0 THEN 0 ELSE 1) |-> Selection(o[i], sel[o[i]])] :
        o \in Orders(DOMAIN sel)}

\* persistSelections: arr holds one Selection per entry of the map
MarshalArrs(sel) ==
    {[i \in 1..Len(o) |-> Selection(o[i], sel[o[i]])] : o \in Orders(DOMAIN sel)}

FileMissing == [state |-> "missing", arr |-> <<>>]
FileCorrupt == [state |-> "corrupt", arr |-> <<>>]
FileJson(arr) == [state |-> "json", arr |-> arr]

\* ---------------------------------------------------------------- channels
NoChan == [made |-> FALSE, closed |-> FALSE, buf |-> <<>>, doctor |-> 0, burst |-> 0]
MakeChan(d) == [made |-> TRUE, closed |-> FALSE, buf |-> <<>>, doctor |-> d, burst |-> 0]

\* a faulty send: the signal is queued even when one is pending
TrySendAlways(c, sig) == [c EXCEPT !.buf = Append(c.buf, sig)]

\* a faulty channel: made without a buffer, so that a send with no
\* receiver waiting takes the default branch
TrySendUnbuffered(c, sig) == c

\* select { case ch <- struct{}{}: default: }
TrySend(c, sig) ==
    IF Len(c.buf) < ChanCap THEN [c EXCEPT !.buf = Append(c.buf, sig)] ELSE c

\* subs[doctorID], nil when the key is absent
SubsOf(sb, d) == IF d \in DOMAIN sb THEN sb[d] ELSE {}

\* s.subs[doctorID][ch] = struct{}{}
SubsAdd(sb, d, ch) == [e \in (DOMAIN sb) \cup {d} |-> IF e = d THEN SubsOf(sb, d) \cup {ch} ELSE sb[e]]

\* a faulty cancel: the delete is missing
SubsDeleteNone(sb, d, ch) == sb

\* a faulty cancel: the delete looks under the other doctors
SubsDeleteOther(sb, d, ch) == [e \in DOMAIN sb |-> IF e # d THEN sb[e] \ {ch} ELSE sb[e]]

\* delete(s.subs[doctorID], ch)
SubsDelete(sb, d, ch) == [e \in DOMAIN sb |-> IF e = d THEN sb[e] \ {ch} ELSE sb[e]]

\* ------------------------------------------------------------------- Init
\* the arrays a selections.json left by an earlier run may hold
RECURSIVE ArrsUpTo(_)
ArrsUpTo(n) ==
    IF n = 0 THEN {<<>>}
    ELSE ArrsUpTo(n - 1) \cup
         {Append(a, Selection(p, d)) : a \in {b \in ArrsUpTo(n - 1) : Len(b) = n - 1},
                                        p \in PatientIds, d \in DoctorIds}

StartFiles == {FileMissing} \cup {FileJson(a) : a \in ArrsUpTo(MaxFileLen)}

IdleCall == [pc |-> "idle", p |-> 0, d |-> 0, res |-> "none", visited |-> {}, prev |-> {}]
IdleStream == [pc |-> "idle", d |-> 0, ctx |-> FALSE, out |-> <<"none">>, cancels |-> 0]
NoGor == [pc |-> "none", arr |-> <<>>, wrote |-> "none"]
IdleView == [pc |-> "idle", id |-> 0, docID |-> 0, res |-> <<"none">>]

\* the seeds: patient ids 1..n (no code depends on which ids the patients
\* carry), any set of doctor ids (0 is the zero value of a missing map entry)
SeedPatients == {1..n : n \in 0..MaxPatientId}
SeedDoctors == SUBSET DoctorIds

\* NewStore: the seed fills the directory, every doctor gets an empty
\* subscriber set, and loadSelections merges the file into the empty map
Init ==
    /\ patients \in SeedPatients
    /\ doctors \in SeedDoctors
    /\ file \in StartFiles
    /\ selections = loadSelections(file, EmptyMap)
    /\ subs = [d \in doctors |-> {}]
    /\ chans = [s \in Streams |-> NoChan]
    /\ mu = [w |-> {}, r |-> {}]
    /\ call = [i \in Callers |-> IdleCall]
    /\ stream = [s \in Streams |-> IdleStream]
    /\ gor = [g \in Goroutines |-> NoGor]
    /\ panics = {}
    /\ view = IdleView

\* ----------------------------------------------------------- SelectDoctor
\* faulty lookups: the doctor is not looked up
ValidateNoDoctor(pats, docs, p, d) ==
    IF p \notin pats THEN ErrPatient ELSE "ok"

\* the two lookups of SelectDoctor, in the order of the code
Validate(pats, docs, p, d) ==
    IF p \notin pats THEN ErrPatient
    ELSE IF d \notin docs THEN ErrDoctor
    ELSE "ok"

\* SelectDoctor(p, d) up to the publish loop: s.mu.Lock(), the lookups and,
\* when both succeed, the map write and `go s.persistSelections()`; a failed
\* lookup returns its error through the deferred Unlock.  Calls are numbered
\* in the order in which they get the lock.
SelectDoctor(i, p, d) ==
    /\ call[i].pc = "idle"
    /\ \A j \in Callers : j < i => call[j].pc # "idle"
    /\ CanLock(mu)
    /\ LET v == Validate(patients, doctors, p, d)
       IN IF v # "ok"
          THEN /\ call' = [call EXCEPT ![i] = [IdleCall EXCEPT !.pc = "done", !.res = v]]
               /\ UNCHANGED <<selections, gor, mu>>
          ELSE /\ mu' = [mu EXCEPT !.w = {CallerId(i)}]
               /\ selections' = MapSet(selections, p, d)
               /\ gor' = [gor EXCEPT ![i].pc = "spawned"]
               /\ call' = [call EXCEPT ![i] =
                             [pc |-> "publish", p |-> p, d |-> d, res |-> "none",
                              visited |-> {},
                              prev |-> IF p \in DOMAIN selections
                                       THEN {selections[p]} ELSE {}]]
    /\ UNCHANGED <<view, patients, doctors, subs, chans, file, stream, panics>>

\* a faulty publish: the loop ranges over the subscribers of every doctor
PublishTargetsAll(sb, d) == UNION {sb[e] : e \in DOMAIN sb}

\* the channels the publish loop of SelectDoctor(p, d) ranges over
PublishTargets(sb, d) == SubsOf(sb, d)

\* one iteration of `for ch := range s.subs[doctorID]`; a send on a closed
\* channel panics and the deferred Unlock runs
SelSend(i, ch) ==
    /\ call[i].pc = "publish"
    /\ ch \in PublishTargets(subs, call[i].d) \ call[i].visited
    /\ IF chans[ch].closed
       THEN /\ panics' = panics \cup {"send on closed channel"}
            /\ mu' = Unlock(mu, CallerId(i))
            /\ call' = [call EXCEPT ![i].pc = "done", ![i].res = "panic",
                                    ![i].visited = {}, ![i].prev = {}]
            /\ UNCHANGED chans
       ELSE /\ chans' = [chans EXCEPT ![ch] = [TrySend(chans[ch], i) EXCEPT
                                                 !.burst = chans[ch].burst + 1]]
            /\ call' = [call EXCEPT ![i].visited = call[i].visited \cup {ch}]
            /\ UNCHANGED <<panics, mu>>
    /\ UNCHANGED <<view, patients, doctors, selections, subs, file, stream, gor>>

\* the range is exhausted: return nil through the deferred s.mu.Unlock()
SelReturn(i) ==
    /\ call[i].pc = "publish"
    /\ PublishTargets(subs, call[i].d) \ call[i].visited = {}
    /\ mu' = Unlock(mu, CallerId(i))
    /\ call' = [call EXCEPT ![i].pc = "done", ![i].res = "ok",
                            ![i].visited = {}, ![i].prev = {}]
    /\ UNCHANGED <<view, patients, doctors, selections, subs, chans, file, stream, gor, panics>>

\* history: call i has written its entry / has returned nil
Committed(i) == call[i].pc = "publish" \/ (call[i].pc = "done" /\ call[i].res = "ok")
\* history: the last call that wrote patient p's entry, 0 when there is none
LastCommit(p) ==
    LET S == {i \in Callers : Committed(i) /\ call[i].p = p}
    IN IF S = {} THEN 0 ELSE CHOOSE i \in S : \A j \in S : j <= i

\* ------------------------------------------------------ persistSelections
\* a faulty error path: a failed write resets the relation
OnWriteErrorReset(sel) == EmptyMap

\* `_ = os.WriteFile(...)`: the error is dropped, the relation stays
OnWriteError(sel) == sel

\* persistSelections up to the write: s.mu.RLock(), the range over the map
\* builds arr, MarshalIndent turns it into bytes and os.WriteFile opens the
\* file with O_TRUNC; when the open fails the error is dropped and the
\* deferred s.mu.RUnlock() runs
PersistBegin(g) ==
    /\ gor[g].pc = "spawned"
    /\ CanRLock(mu)
    /\ \/ /\ \E a \in MarshalArrs(selections) :
                gor' = [gor EXCEPT ![g].pc = "opened", ![g].arr = a]
          /\ mu' = [mu EXCEPT !.r = mu.r \cup {GorId(g)}]
          /\ file' = FileCorrupt
          /\ UNCHANGED selections
       \/ /\ gor' = [gor EXCEPT ![g] = [pc |-> "done", arr |-> <<>>, wrote |-> "failed"]]
          /\ selections' = OnWriteError(selections)
          /\ UNCHANGED <<mu, file>>
    /\ UNCHANGED <<view, patients, doctors, subs, chans, call, stream, panics>>

\* os.WriteFile writes the bytes at offset 0, or the write fails; either
\* way the error is dropped and the deferred s.mu.RUnlock() runs
PersistWrite(g) ==
    /\ gor[g].pc = "opened"
    /\ \/ /\ file' = FileJson(gor[g].arr)
          /\ gor' = [gor EXCEPT ![g] = [pc |-> "done", arr |-> <<>>, wrote |-> "ok"]]
          /\ UNCHANGED selections
       \/ /\ file' = FileCorrupt
          /\ gor' = [gor EXCEPT ![g] = [pc |-> "done", arr |-> <<>>, wrote |-> "failed"]]
          /\ selections' = OnWriteError(selections)
    /\ mu' = RUnlock(mu, GorId(g))
    /\ UNCHANGED <<view, patients, doctors, subs, chans, call, stream, panics>>

\* ------------------------------------------------------ /api/doctor/stream
\* close(ch)
Close(c) == [c EXCEPT !.closed = TRUE, !.burst = 0]

\* Store.Subscribe(d) for the channel of connection s
Subscribe(s, d) ==
    /\ CanLock(mu)
    /\ chans' = [chans EXCEPT ![s] = MakeChan(d)]
    /\ subs' = SubsAdd(subs, d, s)

\* the cancel closure of Subscribe: delete and close under the exclusive
\* lock; closing a closed channel panics
Cancel(s) ==
    /\ CanLock(mu)
    /\ subs' = SubsDelete(subs, chans[s].doctor, s)
    /\ IF chans[s].closed
       THEN /\ panics' = panics \cup {"close of closed channel"}
            /\ UNCHANGED chans
       ELSE /\ chans' = [chans EXCEPT ![s] = Close(chans[s])]
            /\ UNCHANGED panics

\* the handler up to its loop: store.GetDoctor(id) answers 404 for an
\* unknown doctor; otherwise Subscribe, `defer cancel()` and the first ping.
\* Connections are numbered in the order in which they start.
StreamStart(s, d) ==
    /\ stream[s].pc = "idle"
    /\ \A t \in Streams : t < s => stream[t].pc # "idle"
    /\ IF d \notin doctors
       THEN /\ CanRLock(mu)
            /\ stream' = [stream EXCEPT ![s].pc = "done"]
            /\ UNCHANGED <<chans, subs>>
       ELSE /\ Subscribe(s, d)
            /\ stream' = [stream EXCEPT ![s].pc = "loop", ![s].d = d, ![s].out = <<"ping">>]
    /\ UNCHANGED <<view, patients, doctors, selections, mu, file, call, gor, panics>>

\* the transport ends the request: r.Context() is cancelled
CtxCancel(s) ==
    /\ stream[s].pc = "loop"
    /\ ~stream[s].ctx
    /\ stream' = [stream EXCEPT ![s].ctx = TRUE]
    /\ UNCHANGED <<view, patients, doctors, selections, subs, chans, mu, file, call, gor, panics>>

\* case <-ch: one signal leaves the channel and an update event is written
\* (history: the event remembers which call's signal it answers)
StreamRecv(s) ==
    /\ stream[s].pc = "loop"
    /\ chans[s].buf # <<>>
    /\ chans' = [chans EXCEPT ![s].buf = Tail(chans[s].buf), ![s].burst = 0]
    /\ stream' = [stream EXCEPT ![s].out = <<"update", Head(chans[s].buf)>>]
    /\ UNCHANGED <<view, patients, doctors, selections, subs, mu, file, call, gor, panics>>

\* a faulty timeout branch: it returns, and the deferred cancel() runs
StreamTimeoutReturns(s) ==
    /\ stream[s].pc = "loop"
    /\ Cancel(s)
    /\ stream' = [stream EXCEPT ![s].pc = "done", ![s].d = 0, ![s].out = <<"none">>,
                                ![s].cancels = stream[s].cancels + 1]
    /\ UNCHANGED <<view, patients, doctors, selections, mu, file, call, gor>>

\* case <-time.After(25 * time.Second): a ping event is written
StreamTimeout(s) ==
    /\ stream[s].pc = "loop"
    /\ stream' = [stream EXCEPT ![s].out = <<"ping">>]
    /\ UNCHANGED <<view, patients, doctors, selections, subs, chans, mu, file, call, gor, panics>>

\* case <-ctx.Done(): return, and the deferred cancel() runs
StreamExit(s) ==
    /\ stream[s].pc = "loop"
    /\ stream[s].ctx
    /\ Cancel(s)
    /\ stream' = [stream EXCEPT ![s].pc = "done", ![s].d = 0, ![s].out = <<"none">>,
                                ![s].cancels = stream[s].cancels + 1]
    /\ UNCHANGED <<view, patients, doctors, selections, mu, file, call, gor>>

\* -------------------------------------------------------- /api/patient/me
\* p, ok := store.GetPatient(id): a read under the shared lock; an unknown
\* id is answered with 404
ViewGetPatient(id) ==
    /\ view.pc = "idle"
    /\ CanRLock(mu)
    /\ view' = IF id \in patients
               THEN [view EXCEPT !.pc = "got", !.id = id]
               ELSE [view EXCEPT !.pc = "done", !.res = <<"404">>]
    /\ UNCHANGED <<patients, doctors, selections, subs, chans, mu, file, call,
                   stream, gor, panics>>

\* store.mu.RLock() in the handler
ViewRLock ==
    /\ view.pc = "got"
    /\ CanRLock(mu)
    /\ mu' = [mu EXCEPT !.r = mu.r \cup {ViewId}]
    /\ view' = [view EXCEPT !.pc = "locked"]
    /\ UNCHANGED <<patients, doctors, selections, subs, chans, file, call,
                   stream, gor, panics>>

\* docID := store.selections[p.ID]; store.mu.RUnlock()
ViewRead ==
    /\ view.pc = "locked"
    /\ view' = [view EXCEPT !.pc = "read", !.docID = MapGet(selections, view.id)]
    /\ mu' = RUnlock(mu, ViewId)
    /\ UNCHANGED <<patients, doctors, selections, subs, chans, file, call,
                   stream, gor, panics>>

\* store.GetDoctor(docID) under the shared lock, then the response:
\* selected_doctor is the doctor found, or null
ViewGetDoctor ==
    /\ view.pc = "read"
    /\ CanRLock(mu)
    /\ view' = [view EXCEPT !.pc = "done",
                            !.res = IF view.docID \in doctors
                                    THEN <<"doctor", view.docID>>
                                    ELSE <<"null">>]
    /\ UNCHANGED <<patients, doctors, selections, subs, chans, mu, file, call,
                   stream, gor, panics>>

\* ------------------------------------------------------------------- Next
\* the select-doctor requests
NextSelect ==
    \/ \E i \in Callers, p \in PatientIds, d \in DoctorIds : SelectDoctor(i, p, d)
    \/ \E i \in Callers, ch \in Streams : SelSend(i, ch)
    \/ \E i \in Callers : SelReturn(i)

\* the detached persistSelections goroutines
NextPersist ==
    \/ \E g \in Goroutines : PersistBegin(g)
    \/ \E g \in Goroutines : PersistWrite(g)

\* the stream connections
NextStream ==
    \/ \E s \in Streams, d \in DoctorIds : StreamStart(s, d)
    \/ \E s \in Streams : CtxCancel(s)
    \/ \E s \in Streams : StreamRecv(s)
    \/ \E s \in Streams : StreamTimeout(s)
    \/ \E s \in Streams : StreamExit(s)

\* the patient view request
NextView ==
    \/ \E id \in PatientIds : ViewGetPatient(id)
    \/ ViewRLock
    \/ ViewRead
    \/ ViewGetDoctor

\* the requests that change the store or the file
Next == NextSelect \/ NextPersist \/ NextStream

\* the store with its writers, flushes and streams
Spec == Init /\ [][Next]_vars

\* The patient view beside the select-doctor requests: the runs in which no
\* stream connection is opened and no goroutine is scheduled.
NextViewOnly ==
    \/ \E i \in Callers, p \in PatientIds, d \in DoctorIds : SelectDoctor(i, p, d)
    \/ \E i \in Callers : SelReturn(i)
    \/ NextView

ViewSpec == Init /\ [][NextViewOnly]_vars

\* The notification hub: the runs in which no persistSelections goroutine has
\* been scheduled yet.  A goroutine only reads the map, writes the file and
\* holds the shared lock, so it can delay a step of a request or a stream but
\* never enables one or changes what it sees: dropping the goroutine steps
\* from a run of Spec leaves a run of HubSpec with the same relation,
\* subscriber sets, channels, calls and streams.
HubSpec == Init /\ [][NextSelect \/ NextStream]_vars

\* The persistence sink: the runs in which no stream connection is opened,
\* so that the publish loop of every call ranges over an empty set.
NextPersistOnly ==
    \/ \E i \in Callers, p \in PatientIds, d \in DoctorIds : SelectDoctor(i, p, d)
    \/ \E i \in Callers : SelReturn(i)
    \/ NextPersist

PersistSpec == Init /\ [][NextPersistOnly]_vars

\* The cancel closure as a function a caller may call again: the stream
\* handler calls it once (StreamExit); CancelAgain is a further call on the
\* subscription of a finished connection.
MaxCancels == 3

CancelAgain(s) ==
    /\ stream[s].pc = "done"
    /\ stream[s].cancels >= 1
    /\ stream[s].cancels < MaxCancels
    /\ Cancel(s)
    /\ stream' = [stream EXCEPT ![s].cancels = stream[s].cancels + 1]
    /\ UNCHANGED <<view, patients, doctors, selections, mu, file, call, gor>>

NextCancel ==
    \/ \E s \in Streams, d \in DoctorIds : StreamStart(s, d)
    \/ \E s \in Streams : CtxCancel(s)
    \/ \E s \in Streams : StreamTimeout(s)
    \/ \E s \in Streams : StreamExit(s)
    \/ \E s \in Streams : CancelAgain(s)

CancelSpec == Init /\ [][NextCancel]_vars

\* Fair scheduling: a call that holds the lock goes on to its return, a file
\* write that has begun ends, and a handler whose context is cancelled and
\* that can get the lock again and again does get it (a blocked Lock stops
\* new readers, and the mutex hands itself to a starved waiter).
Fairness ==
    /\ \A i \in Callers : WF_vars(\E ch \in Streams : SelSend(i, ch))
    /\ \A i \in Callers : WF_vars(SelReturn(i))
    /\ \A g \in Goroutines : WF_vars(PersistWrite(g))
    /\ \A s \in Streams : SF_vars(StreamExit(s))

\* one seed, no selections.json: the start of the liveness checks
LiveInit == Init /\ patients = {1} /\ doctors = DoctorIds /\ file = FileMissing

LiveSpec == LiveInit /\ [][Next]_vars /\ Fairness

\* Every operation on the lock together: the requests, the flushes, the
\* patient view, and of the streams the steps that take the lock (a receive
\* and a timeout of a stream loop do not touch it).
NextLock ==
    \/ NextSelect
    \/ NextPersist
    \/ \E s \in Streams, d \in DoctorIds : StreamStart(s, d)
    \/ \E s \in Streams : CtxCancel(s)
    \/ \E s \in Streams : StreamExit(s)
    \/ NextView

\* Weak fairness only: an operation that could go on for ever does go on.
\* Nothing is assumed about who gets a contended lock.
LockFairness ==
    /\ \A i \in Callers : WF_vars(\E ch \in Streams : SelSend(i, ch))
    /\ \A i \in Callers : WF_vars(SelReturn(i))
    /\ \A g \in Goroutines : WF_vars(PersistBegin(g))
    /\ \A g \in Goroutines : WF_vars(PersistWrite(g))
    /\ \A s \in Streams : WF_vars(StreamExit(s))
    /\ WF_vars(ViewRLock)
    /\ WF_vars(ViewRead)
    /\ WF_vars(ViewGetDoctor)

LockSpec == LiveInit /\ [][NextLock]_vars /\ LockFairness

\* =================================================================== claims

\* ---------------------------------------------------------------------- C1
\* C1: once a SelectDoctor(p, d) on a seeded patient and doctor has written
\* its entry, and as long as no later call has written p's entry, the
\* relation maps p to d and PatientsOfDoctor(d) contains p.
C1_SelectTakesEffect ==
    \A i \in Callers :
        (Committed(i) /\ LastCommit(call[i].p) = i) =>
            /\ call[i].p \in DOMAIN selections
            /\ MapGet(selections, call[i].p) = call[i].d
            /\ call[i].p \in PatientsOfDoctor(selections, patients, call[i].d)

\* a call has returned nil, its entry is still the last one written for its
\* patient, and another call has written an entry too
C1_Witness ==
    \E i \in Callers, j \in Callers :
        /\ i # j
        /\ call[i].pc = "done" /\ call[i].res = "ok"
        /\ LastCommit(call[i].p) = i
        /\ Committed(j)

\* ---------------------------------------------------------------------- C2
\* C2: a SelectDoctor(p, d) with p not seeded returns "patient not found",
\* with p seeded and d not seeded "doctor not found"; in both cases the step
\* leaves the relation, every channel, the goroutines, the file and the
\* lock as they were.
C2_Step(i, p, d) ==
    (SelectDoctor(i, p, d) /\ (p \notin patients \/ d \notin doctors)) =>
        /\ call'[i].pc = "done"
        /\ call'[i].res = (IF p \notin patients THEN ErrPatient ELSE ErrDoctor)
        /\ UNCHANGED <<selections, subs, chans, gor, file, mu>>

C2_NotFoundLeavesAllAlone ==
    [][\A i \in Callers, p \in PatientIds, d \in DoctorIds : C2_Step(i, p, d)]_vars

\* both errors have been returned while a subscriber is registered
C2_Witness ==
    \E i \in Callers, j \in Callers, s \in Streams :
        /\ call[i].pc = "done" /\ call[i].res = ErrPatient
        /\ call[j].pc = "done" /\ call[j].res = ErrDoctor
        /\ stream[s].pc = "loop"
        /\ chans[s].buf = <<>>

\* ---------------------------------------------------------------------- C3
\* no patient is in the PatientsOfDoctor result of two doctors
AtMostOneDoctor(sel, pats) ==
    \A p \in PatientIds, d1 \in DoctorIds, d2 \in DoctorIds :
        (p \in PatientsOfDoctor(sel, pats, d1) /\ p \in PatientsOfDoctor(sel, pats, d2))
            => d1 = d2

\* C3: when p is mapped to d1 and SelectDoctor(p, d2) succeeds with
\* d2 # d1, then after the step PatientsOfDoctor(d1) no longer contains p
\* and PatientsOfDoctor(d2) does; and in every state each patient is in the
\* PatientsOfDoctor result of at most one doctor.
C3_Step(i, p, d2) ==
    (/\ SelectDoctor(i, p, d2)
     /\ p \in patients /\ d2 \in doctors
     /\ p \in DOMAIN selections
     /\ selections[p] # d2) =>
        /\ p \notin PatientsOfDoctor(selections', patients, selections[p])
        /\ p \in PatientsOfDoctor(selections', patients, d2)

C3_Reselect ==
    /\ []AtMostOneDoctor(selections, patients)
    /\ [][\A i \in Callers, p \in PatientIds, d \in DoctorIds : C3_Step(i, p, d)]_vars

\* a call has moved its patient from one doctor to another
C3_Witness ==
    \E i \in Callers :
        /\ call[i].pc = "publish"
        /\ call[i].prev # {}
        /\ call[i].d \notin call[i].prev

\* ---------------------------------------------------------------------- C4
\* the open channels that are in their doctor's subscriber set
Registered(s) ==
    chans[s].made /\ ~chans[s].closed /\ s \in SubsOf(subs, chans[s].doctor)

\* C4: a registered channel never holds more than one signal; when one or
\* more SelectDoctor calls have published to it since its loop last received
\* (or since it was subscribed), it holds exactly one; and the receive that
\* follows leaves it empty, so the burst gives one update event.
C4_Step(s) ==
    /\ Registered(s)' =>
          /\ Len(chans'[s].buf) <= 1
          /\ (chans'[s].burst >= 1 => Len(chans'[s].buf) = 1)
    /\ StreamRecv(s) => (chans'[s].buf = <<>> /\ stream'[s].out[1] = "update")

C4_BurstCoalesces == [][\A s \in Streams : C4_Step(s)]_vars

\* two calls have published to a subscriber that has not received since
C4_Witness ==
    \E s \in Streams :
        /\ Registered(s)
        /\ chans[s].burst >= 2
        /\ Len(chans[s].buf) = 1

\* ---------------------------------------------------------------------- C5
\* C5: a channel that cancel has closed is in no subscriber set, no publish
\* loop has a closed channel left in its range, and no send on a closed
\* channel has panicked.
C5_NoSendAfterCancel ==
    /\ \A s \in Streams : chans[s].closed => \A d \in DOMAIN subs : s \notin subs[d]
    /\ \A i \in Callers : call[i].pc = "publish" =>
          \A ch \in PublishTargets(subs, call[i].d) : ~chans[ch].closed
    /\ "send on closed channel" \notin panics

\* a SelectDoctor publishes to doctor d after the cancel of a subscription
\* for d has run, while another subscriber of d is still registered
C5_Witness ==
    \E i \in Callers, s \in Streams, t \in Streams :
        /\ chans[s].closed
        /\ call[i].pc = "publish"
        /\ call[i].d = chans[s].doctor
        /\ Registered(t) /\ chans[t].doctor = call[i].d
        /\ t \in call[i].visited

\* ---------------------------------------------------------------------- C6
\* C6: when a persistSelections run has written the file, loadSelections
\* of that file into the empty map of a fresh Store gives the relation the
\* run persisted: the same keys and the same doctor for every key.
C6_Step(g) ==
    (gor[g].pc = "opened" /\ gor'[g].pc = "done" /\ gor'[g].wrote = "ok") =>
        loadSelections(file', EmptyMap) = selections

C6_RoundTrip == [][\A g \in Goroutines : C6_Step(g)]_vars

\* a relation of two entries has been written and the file still holds it
C6_Witness ==
    /\ file.state = "json"
    /\ Len(file.arr) = 2
    /\ \E g \in Goroutines : gor[g].pc = "done" /\ gor[g].wrote = "ok"
    /\ loadSelections(file, EmptyMap) = selections

\* ---------------------------------------------------------------------- C7
\* the relation shows the entry written by call i, or the entry a later call
\* wrote for the same patient
Reflects(i) ==
    LET p == call[i].p
        j == LastCommit(p)
    IN /\ Committed(i)
       /\ j >= i
       /\ p \in DOMAIN selections
       /\ MapGet(selections, p) = call[j].d
       /\ p \in PatientsOfDoctor(selections, patients, call[j].d)
       /\ (j # i /\ call[j].d # call[i].d) =>
             p \notin PatientsOfDoctor(selections, patients, call[i].d)

\* C7: from the moment a stream loop has received the signal of a call
\* SelectDoctor(p, d), a read of the relation (the map entry of p,
\* PatientsOfDoctor) shows that call's write or a later write for p, never
\* the relation from before the write; the same holds for every signal
\* that waits in a channel.
C7_WokenSeesMutation ==
    /\ \A s \in Streams : stream[s].out[1] = "update" => Reflects(stream[s].out[2])
    /\ \A s \in Streams : \A k \in 1..Len(chans[s].buf) : Reflects(chans[s].buf[k])

\* a loop has received the signal of a call and a later call has written
\* the same patient's entry since
C7_Witness ==
    \E s \in Streams :
        /\ stream[s].out[1] = "update"
        /\ LastCommit(call[stream[s].out[2]].p) > stream[s].out[2]

\* ---------------------------------------------------------------------- C8
\* C8: a step of a SelectDoctor(p, d) call changes only channels that are
\* in the subscriber set of d; every other channel, also those of the
\* doctor p was mapped to before, stays as it was.
C8_Step ==
    (call' # call) =>
        \A c \in Streams :
            (chans'[c] # chans[c]) =>
                \E i \in Callers :
                    /\ call[i].pc = "publish"
                    /\ call'[i] # call[i]
                    /\ chans[c].doctor = call[i].d
                    /\ c \in SubsOf(subs, call[i].d)

C8_OnlyNewDoctorSignalled == [][C8_Step]_vars

\* a call has moved its patient away from a doctor who has a registered
\* subscriber, has sent to every subscriber of the new doctor, and the old
\* doctor's subscriber holds no signal
C8_Witness ==
    \E i \in Callers, s \in Streams :
        /\ call[i].pc = "publish"
        /\ call[i].prev # {}
        /\ call[i].d \notin call[i].prev
        /\ Registered(s)
        /\ chans[s].doctor \in call[i].prev
        /\ chans[s].buf = <<>>
        /\ call[i].visited # {}
        /\ call[i].visited = PublishTargets(subs, call[i].d)

\* ---------------------------------------------------------------------- C9
\* C9: a second call of the cancel closure of a subscription completes
\* without a panic and leaves the subscriber sets as the first call left
\* them.
C9_CancelIdempotent ==
    \A s \in Streams :
        stream[s].cancels >= 2 =>
            /\ "close of closed channel" \notin panics
            /\ \A d \in DOMAIN subs : s \notin subs[d]

\* --------------------------------------------------------------------- C10
\* C10: the handler of a stream connection runs cancel at most once and only
\* after its context was cancelled; while it is in its loop its channel is
\* in the doctor's subscriber set; and once the context is cancelled the
\* handler ends with the channel removed and cancel run exactly once.
C10_Safe ==
    \A s \in Streams :
        /\ stream[s].cancels <= 1
        /\ stream[s].cancels = 1 => stream[s].ctx
        /\ stream[s].pc = "loop" => Registered(s) /\ chans[s].doctor = stream[s].d
        /\ stream[s].pc = "done" => \A d \in DOMAIN subs : s \notin subs[d]

C10_Removed(s) ==
    /\ stream[s].pc = "done"
    /\ stream[s].cancels = 1
    /\ \A d \in DOMAIN subs : s \notin subs[d]

C10_UnsubscribedOnce ==
    /\ []C10_Safe
    /\ \A s \in Streams : (stream[s].pc = "loop" /\ stream[s].ctx) ~> C10_Removed(s)

\* one connection has ended and its subscription is gone while another
\* connection, whose context is live, is still subscribed
C10_Witness ==
    \E s \in Streams, t \in Streams :
        /\ C10_Removed(s)
        /\ chans[s].closed
        /\ stream[t].pc = "loop" /\ ~stream[t].ctx
        /\ Registered(t)

\* --------------------------------------------------------------------- C11
\* what a read of the relation returns for the patient of call i: the
\* doctor written by the last call for that patient
ReadsInMemory(i) ==
    LET p == call[i].p
        j == LastCommit(p)
    IN /\ j >= i
       /\ MapGet(selections, p) = call[j].d
       /\ p \in PatientsOfDoctor(selections, patients, call[j].d)

\* C11: whether the persistSelections run scheduled by a SelectDoctor call
\* ends with a written file or with a failed write, the call has returned
\* nil, the step that ends the run changes neither the relation nor any
\* call's result, and the reads (the map entry, PatientsOfDoctor) return
\* the in-memory values.
C11_Outcome ==
    \A i \in Callers :
        gor[i].wrote \in {"ok", "failed"} =>
            /\ call[i].pc = "done"
            /\ call[i].res = "ok"
            /\ ReadsInMemory(i)

C11_Step(g) ==
    (gor[g].pc \in {"spawned", "opened"} /\ gor'[g].pc = "done") =>
        UNCHANGED <<selections, call>>

C11_WriteFailureIgnored ==
    /\ []C11_Outcome
    /\ [][\A g \in Goroutines : C11_Step(g)]_vars

\* the write of one call's run has failed and left no file to load, the
\* write of another call's run has failed too, and the relation holds both
\* calls' entries
C11_Witness ==
    \E i \in Callers, j \in Callers :
        /\ i # j
        /\ gor[i].wrote = "failed" /\ gor[j].wrote = "failed"
        /\ file.state # "json"
        /\ call[i].p # call[j].p
        /\ MapGet(selections, call[i].p) = call[i].d
        /\ MapGet(selections, call[j].p) = call[j].d

\* --------------------------------------------------------------------- C12
\* C12: every key of the relation is the id of a seeded patient and every
\* value the id of a seeded doctor, from the startup load on.
C12_ReferentialIntegrity ==
    \A p \in DOMAIN selections : p \in patients /\ selections[p] \in doctors

\* --------------------------------------------------------------------- C13
\* C13: no iteration of the publish loop of a SelectDoctor call runs while
\* the call holds the exclusive lock.
C13_PublishOutsideLock ==
    [][\A i \in Callers, ch \in Streams :
          SelSend(i, ch) => CallerId(i) \notin mu.w]_vars

\* --------------------------------------------------------------------- C14
\* C14: a persistSelections run that is between the open and the end of
\* its file write holds no lock, so that an exclusive Lock (SelectDoctor,
\* Subscribe, cancel) can be granted meanwhile.
C14_WriteOutsideLock ==
    \A g \in Goroutines :
        gor[g].pc = "opened" => (GorId(g) \notin mu.r /\ CanLock(mu))

\* --------------------------------------------------------------------- C15
\* every channel holds at most one pending signal
C15_AtMostOnePending ==
    \A s \in Streams : Len(chans[s].buf) <= 1

\* one iteration of the publish loop: it is a step of its own that waits
\* for no receiver, takes one more channel out of the range, and leaves
\* a signal pending in that channel whatever the other channels hold
C15_Step(i, ch) ==
    SelSend(i, ch) =>
        /\ ch \notin call[i].visited
        /\ call'[i].visited = call[i].visited \cup {ch}
        /\ Len(chans'[ch].buf) = 1
        /\ \A c \in Streams \ {ch} : chans'[c] = chans[c]

\* C15: SelectDoctor never waits on a subscriber.  Every channel holds at
\* most one pending signal; each iteration of the publish loop ends with a
\* signal pending in its channel, also when another subscriber's channel is
\* full; and a call in its publish loop reaches its return although no
\* stream loop is ever scheduled to receive.
C15_NeverWaitsOnSubscriber ==
    /\ []C15_AtMostOnePending
    /\ [][\A i \in Callers, ch \in Streams : C15_Step(i, ch)]_vars
    /\ \A i \in Callers :
          (call[i].pc = "publish") ~> (call[i].pc = "done" /\ call[i].res = "ok")

\* a call has published to two subscribers of its doctor: the channel of
\* one was full with an earlier call's signal that nobody received, the
\* other one holds this call's signal
C15_Witness ==
    \E i \in Callers, s \in Streams, t \in Streams :
        /\ s # t
        /\ call[i].pc = "publish"
        /\ {s, t} \subseteq call[i].visited
        /\ chans[s].buf # <<>> /\ chans[s].buf[1] # i
        /\ chans[s].burst >= 2
        /\ chans[t].buf = <<i>>

\* --------------------------------------------------------------------- C16
\* the signal of call i in the channel of connection s was placed by a
\* SelectDoctor that wrote its entry for the doctor of s and sent to s
C16_PlacedBySelect(i, s) ==
    /\ Committed(i)
    /\ call[i].d = stream[s].d
    /\ call[i].d = chans[s].doctor
    /\ call[i].pc = "publish" => s \in call[i].visited

C16_Step(s) ==
    /\ (stream[s].pc = "loop" /\ stream'[s].pc # "loop") =>
          (stream[s].ctx /\ StreamExit(s))
    /\ StreamRecv(s) =>
          /\ stream'[s].pc = "loop"
          /\ Len(chans'[s].buf) = Len(chans[s].buf) - 1
          /\ stream'[s].out = <<"update", chans[s].buf[1]>>
          /\ C16_PlacedBySelect(chans[s].buf[1], s)
          /\ \A c \in Streams \ {s} : chans'[c] = chans[c]
    /\ StreamTimeout(s) =>
          /\ stream'[s].pc = "loop"
          /\ stream'[s].out = <<"ping">>
          /\ chans' = chans /\ subs' = subs
    /\ (stream'[s].out # stream[s].out /\ stream'[s].out[1] = "update") =>
          (chans[s].buf # <<>> /\ chans'[s].buf = Tail(chans[s].buf))

\* C16: a stream loop is left only by the step of the ctx.Done() branch,
\* with the context cancelled; a receive and a timeout leave the handler in
\* its loop; an update event is written only by a step that takes one
\* signal out of the channel, a signal that a successful SelectDoctor for
\* this doctor sent to this channel; and a timeout writes a ping and
\* changes no channel and no subscriber set.
C16_LoopEndsOnlyOnCancel == [][\A s \in Streams : C16_Step(s)]_vars

\* a loop whose context is already cancelled has received a signal and is
\* still in its loop, while another loop has just written a ping with a
\* signal pending
C16_Witness ==
    \E s \in Streams, t \in Streams :
        /\ stream[s].pc = "loop" /\ stream[s].ctx
        /\ stream[s].out[1] = "update"
        /\ stream[t].pc = "loop" /\ stream[t].out = <<"ping">>
        /\ chans[t].buf # <<>>

\* --------------------------------------------------------------------- C17
\* arr lists relation sel in full: one entry per key, each with the key's
\* doctor, and nothing else
IsSnapshot(arr, sel) ==
    /\ Len(arr) = Cardinality(DOMAIN sel)
    /\ \A k \in 1..Len(arr) :
          /\ arr[k].patient_id \in DOMAIN sel
          /\ arr[k].doctor_id = sel[arr[k].patient_id]
    /\ \A p \in DOMAIN sel : \E k \in 1..Len(arr) : arr[k].patient_id = p

\* between its range over the map and the end of its write, the array of a
\* run lists the relation in full, and no call changes the relation
C17_InFlight ==
    \A g \in Goroutines : gor[g].pc = "opened" => IsSnapshot(gor[g].arr, selections)

C17_Step(g) ==
    (gor[g].pc = "opened" /\ gor'[g].pc = "done" /\ gor'[g].wrote = "ok") =>
        /\ file'.state = "json"
        /\ IsSnapshot(file'.arr, selections)
        /\ selections' = selections

\* C17: however SelectDoctor calls and persistSelections runs interleave,
\* the file a completed flush leaves lists in full the relation of one
\* moment, the moment the write ends: the array the run built still lists
\* the relation when it is written.
C17_ValidSnapshot ==
    /\ []C17_InFlight
    /\ [][\A g \in Goroutines : C17_Step(g)]_vars

\* two runs were in flight together; one has written a relation of two
\* entries, the other has opened the file again and is about to write
C17_Witness ==
    \E g \in Goroutines, h \in Goroutines :
        /\ gor[g].pc = "done" /\ gor[g].wrote = "ok"
        /\ gor[h].pc = "opened"
        /\ Len(gor[h].arr) = 2
        /\ gor[h].arr[1].doctor_id # gor[h].arr[2].doctor_id

\* --------------------------------------------------------------------- C19
\* the array holds, for every patient some call has written, the doctor of
\* the last such call
HoldsLastCommits(arr) ==
    \A p \in PatientIds :
        LastCommit(p) > 0 =>
            \E k \in 1..Len(arr) :
                /\ arr[k].patient_id = p
                /\ arr[k].doctor_id = call[LastCommit(p)].d

\* the write of run g: the file holds what the last call for each patient
\* wrote, whichever call scheduled g
C19_Step(g) ==
    (gor[g].pc = "opened" /\ gor'[g].pc = "done" /\ gor'[g].wrote = "ok") =>
        (file'.state = "json" /\ HoldsLastCommits(file'.arr))

\* every scheduled run has ended with a written file, and no call is in
\* progress
C19_AllFlushed ==
    /\ \E g \in Goroutines : gor[g].pc = "done"
    /\ \A g \in Goroutines :
          /\ gor[g].pc \in {"none", "done"}
          /\ gor[g].pc = "done" => gor[g].wrote = "ok"
    /\ \A i \in Callers : call[i].pc # "publish"

C19_Quiescent ==
    C19_AllFlushed =>
        /\ file.state = "json"
        /\ loadSelections(file, EmptyMap) = selections
        /\ HoldsLastCommits(file.arr)

\* C19: a persistSelections run writes the relation as it is when the run
\* writes, not as it was when the run was scheduled: the file it leaves
\* holds the last write for every patient, so a run scheduled by an earlier
\* call never brings back an older state; and once every scheduled run has
\* written and no call is in progress, the file loads to the relation.
C19_FlushReadsCurrent ==
    /\ []C19_Quiescent
    /\ [][\A g \in Goroutines : C19_Step(g)]_vars

\* two calls have written the same patient's entry with different doctors,
\* both runs have written, and the file holds the later doctor
C19_Witness ==
    \E i \in Callers, j \in Callers :
        /\ i < j
        /\ C19_AllFlushed
        /\ gor[i].pc = "done" /\ gor[j].pc = "done"
        /\ call[i].p = call[j].p /\ call[i].d # call[j].d
        /\ file = FileJson(<<Selection(call[j].p, call[j].d)>>)

\* --------------------------------------------------------------------- C18
\* C18: when /api/patient/me has answered for a seeded patient that has no
\* entry in the relation, the answer reports no selected doctor, whatever
\* doctors are seeded.
C18_NoSelectionNoDoctor ==
    (/\ view.pc = "done"
     /\ view.res # <<"404">>
     /\ view.id \in patients
     /\ view.id \notin DOMAIN selections) =>
        view.res = <<"null">>

\* --------------------------------------------------------------------- C20
\* the goroutines that hold the lock
Holders(m) == m.w \cup m.r

\* the lock is held by exactly the operations that are inside their locked
\* section: one writer at most, and no reader beside a writer
C20_LockSafe ==
    /\ mu.w = {CallerId(i) : i \in {j \in Callers : call[j].pc = "publish"}}
    /\ mu.r = {GorId(g) : g \in {h \in Goroutines : gor[h].pc = "opened"}}
              \cup (IF view.pc = "locked" THEN {ViewId} ELSE {})
    /\ Cardinality(mu.w) <= 1
    /\ mu.w # {} => mu.r = {}

\* no operation takes the lock while it holds it
C20_Step ==
    /\ \A i \in Callers, p \in PatientIds, d \in DoctorIds :
          SelectDoctor(i, p, d) => CallerId(i) \notin Holders(mu)
    /\ \A g \in Goroutines : PersistBegin(g) => GorId(g) \notin Holders(mu)
    /\ \A s \in Streams :
          ((\E d \in DoctorIds : StreamStart(s, d)) \/ StreamExit(s)) =>
              StreamId(s) \notin Holders(mu)
    /\ ((\E id \in PatientIds : ViewGetPatient(id)) \/ ViewRLock \/ ViewGetDoctor) =>
          ViewId \notin Holders(mu)

\* no started operation is still on its way: no call is in its publish
\* loop, no flush is scheduled or writing, the view is not between its
\* first lookup and its answer, no handler with a cancelled context is
\* still in its loop, and the lock is free
C20_AllReturned ==
    /\ \A i \in Callers : call[i].pc # "publish"
    /\ \A g \in Goroutines : gor[g].pc \notin {"spawned", "opened"}
    /\ view.pc \notin {"got", "locked", "read"}
    /\ \A s \in Streams : ~(stream[s].pc = "loop" /\ stream[s].ctx)
    /\ CanLock(mu)

\* C20: the lock is held only by operations inside their locked section,
\* by one writer or by readers; no operation takes it while holding it;
\* and with fair scheduling and file writes that end, again and again
\* every operation that was started has released the lock and returned
\* (an operation never goes back to an earlier position, so one that is on
\* its way in some state has returned by the next such moment).
C20_DeadlockFree ==
    /\ []C20_LockSafe
    /\ [][C20_Step]_vars
    /\ []<>C20_AllReturned

\* every kind of operation has held the lock and has ended: two calls have
\* returned, both flushes have ended, the view has answered, a stream has
\* been cancelled, and the lock is free
C20_Witness ==
    /\ \A i \in Callers : call[i].pc = "done" /\ call[i].res = "ok"
    /\ \A g \in Goroutines : gor[g].pc = "done"
    /\ view.pc = "done" /\ view.res # <<"404">>
    /\ \E s \in Streams : stream[s].pc = "done" /\ stream[s].cancels = 1
    /\ CanLock(mu)

====
